---- MODULE Spec2Model ----
(***************************************************************************)
(* Object detection notebook (YOLOS + NMS): batch_iou and                  *)
(* non_maximum_suppression.                                                *)
(*                                                                         *)
(* Rectangles are <<left, top, right, bottom>> with integer coordinates.   *)
(* Real values (IoU, thresholds) are exact rationals <<num, den>>, den > 0.*)
(* Probabilities are integers in units of 1/Scale.                         *)
(***************************************************************************)
EXTENDS Integers, Sequences, FiniteSets, TLC

\* ---------------------------------------------------------------- bounds
MaxN == 3          \* detections per non_maximum_suppression call
MaxCand == 1       \* candidates per batch_iou call (generic inputs)
MaxCoord == 2      \* coordinates of generic batch_iou rectangles: 0..MaxCoord
Scale == 20        \* probabilities are k/Scale
ParN == 2          \* detections per image when two calls run side by side

\* ------------------------------------------------------------- rationals
Gt(a, b) == a[1] * b[2] > b[1] * a[2]
Leq(a, b) == ~Gt(a, b)
EqR(a, b) == a[1] * b[2] = b[1] * a[2]
Abs(x) == IF x < 0 THEN -x ELSE x
\* |a - b| > 1e-6, for a[2] >= 0 and b[2] > 0. <<0, 0>> stands for NaN: every
\* comparison with NaN is false.
ExceedsTol(a, b) == Abs(a[1] * b[2] - b[1] * a[2]) > (a[2] * b[2]) \div 1000000

Max2(x, y) == IF x > y THEN x ELSE y
Min2(x, y) == IF x < y THEN x ELSE y

\* ------------------------------------------------------------ batch_iou
Area(b) == (b[3] - b[1]) * (b[4] - b[2])

IntersectionAreaNoClip(a, b) ==
    LET w == Min2(a[3], b[3]) - Max2(a[1], b[1])
        h == Min2(a[4], b[4]) - Max2(a[2], b[2])
    IN  w * h

\* Each extent of the intersection rectangle is clipped at 0.
IntersectionArea(a, b) ==
    LET w == Min2(a[3], b[3]) - Max2(a[1], b[1])
        h == Min2(a[4], b[4]) - Max2(a[2], b[2])
    IN  Max2(w, 0) * Max2(h, 0)

UnionAreaNoSubtract(a, b) == Area(a) + Area(b)
UnionAreaSubtractTwice(a, b) ==
    Area(a) + Area(b) - 2 * IntersectionArea(a, b)
UnionArea(a, b) == Area(a) + Area(b) - IntersectionArea(a, b)

IoUOverReference(a, b) ==
    IF Area(a) > 0 THEN <<IntersectionArea(a, b), Area(a)>> ELSE <<0, 1>>
IoUUnguarded(a, b) == <<IntersectionArea(a, b), UnionArea(a, b)>>

\* IoU = intersection / union; 0 when the union is empty.
IoU(a, b) ==
    IF UnionArea(a, b) > 0
    THEN <<IntersectionArea(a, b), UnionArea(a, b)>>
    ELSE <<0, 1>>

BatchIouReversed(ref, bxs) ==
    [i \in 1..Len(bxs) |-> IoU(ref, bxs[Len(bxs) + 1 - i])]
\* result = torch.empty(len(boxes)); result[i] = IoU(reference, boxes[i])
BatchIou(ref, bxs) == [i \in 1..Len(bxs) |-> IoU(ref, bxs[i])]

\* check_batch_iou fixture
FixtureReference == <<0, 0, 4, 6>>
FixtureBoxes == << <<0, 0, 4, 4>>, <<-2, -2, 2, 2>>, <<-4, -4, 0, 0>>,
                   <<-6, -6, -2, -2>> >>
IouGt == << <<2, 3>>, <<1, 9>>, <<0, 1>>, <<0, 1>> >>

\* check_batch_iou: shape (4,) and every entry within 1e-6 of iou_gt
CheckBatchIou(res) ==
    /\ Len(res) = 4
    /\ \A i \in 1..4 : ~ExceedsTol(res[i], IouGt[i])


\* ------------------------------------------------ non_maximum_suppression
ObjectnessIsBackground(p) == p[Len(p)]
ObjectnessFirstClass(p) == p[1]
\* The last class is reserved for "no object": obj_probs = 1 - no_obj_probs.
Objectness(p) == Scale - p[Len(p)]

\* 0 < iou_threshold <= 1
ValidThresholdClosedZero(t) == t[1] >= 0 /\ t[1] <= t[2]
ValidThreshold(t) == t[1] > 0 /\ t[1] <= t[2]

ValidInputNonEmpty(bxs, prs, t) ==
    /\ Len(bxs) >= 1
    /\ Len(bxs) = Len(prs)
    /\ ValidThreshold(t)
    /\ \A i \in 1..Len(prs) : Len(prs[i]) >= 1

ValidInput(bxs, prs, t) ==
    /\ Len(bxs) = Len(prs)
    /\ ValidThreshold(t)
    /\ \A i \in 1..Len(prs) : Len(prs[i]) >= 1

RECURSIVE InsertDescUnstable(_, _, _)
InsertDescUnstable(s, i, prs) ==
    IF s = <<>> THEN <<i>>
    ELSE IF Objectness(prs[Head(s)]) > Objectness(prs[i])
         THEN <<Head(s)>> \o InsertDescUnstable(Tail(s), i, prs)
         ELSE <<i>> \o s

\* Insert index i into the index list s (already in descending objectness):
\* i goes behind every index whose objectness is greater than or equal to
\* its own, so equal objectness keeps input order.
RECURSIVE InsertDesc(_, _, _)
InsertDesc(s, i, prs) ==
    IF s = <<>> THEN <<i>>
    ELSE IF Objectness(prs[Head(s)]) >= Objectness(prs[i])
         THEN <<Head(s)>> \o InsertDesc(Tail(s), i, prs)
         ELSE <<i>> \o s

RECURSIVE SortPrefix(_, _)
SortPrefix(prs, n) ==
    IF n = 0 THEN <<>> ELSE InsertDesc(SortPrefix(prs, n - 1), n, prs)

ArgsortInputOrder(prs) == [i \in 1..Len(prs) |-> i]
ArgsortAboveConfidence(prs) ==
    LET AboveFloor(i) == 2 * Objectness(prs[i]) >= Scale
    IN  SelectSeq(SortPrefix(prs, Len(prs)), AboveFloor)
\* 1. Order boxes by object probability in the descending order.
ArgsortDesc(prs) == SortPrefix(prs, Len(prs))

\* 2.2 Remove the boxes with IoU greater than the threshold.
RECURSIVE RemoveOverlappingGeq(_, _, _)
RemoveOverlappingGeq(rest, ious, t) ==
    IF rest = <<>> THEN <<>>
    ELSE IF ~Gt(t, Head(ious))
         THEN RemoveOverlappingGeq(Tail(rest), Tail(ious), t)
         ELSE <<Head(rest)>> \o RemoveOverlappingGeq(Tail(rest), Tail(ious), t)

RECURSIVE RemoveOverlappingBelow(_, _, _)
RemoveOverlappingBelow(rest, ious, t) ==
    IF rest = <<>> THEN <<>>
    ELSE IF Gt(t, Head(ious))
         THEN RemoveOverlappingBelow(Tail(rest), Tail(ious), t)
         ELSE <<Head(rest)>> \o RemoveOverlappingBelow(Tail(rest), Tail(ious), t)

RECURSIVE RemoveOverlappingFirstOnly(_, _, _)
RemoveOverlappingFirstOnly(rest, ious, t) ==
    IF rest = <<>> THEN <<>>
    ELSE IF Gt(Head(ious), t)
         THEN Tail(rest)
         ELSE <<Head(rest)>> \o
              RemoveOverlappingFirstOnly(Tail(rest), Tail(ious), t)

RECURSIVE RemoveOverlapping(_, _, _)
RemoveOverlapping(rest, ious, t) ==
    IF rest = <<>> THEN <<>>
    ELSE IF Gt(Head(ious), t)
         THEN RemoveOverlapping(Tail(rest), Tail(ious), t)
         ELSE <<Head(rest)>> \o RemoveOverlapping(Tail(rest), Tail(ious), t)

Gather(xs, idx) == [k \in 1..Len(idx) |-> xs[idx[k]]]

Range(s) == {s[i] : i \in 1..Len(s)}

\* ------------------------------------------------------------------ state
VARIABLES
    ipc,            \* batch_iou call: "call" | "returned"
    reference,      \* batch_iou argument: reference box
    cands,          \* batch_iou argument: boxes (N, 4)
    result,         \* batch_iou return value
    pc,             \* non_maximum_suppression: "start" | "loop" | "done" | "error"
    boxes,          \* argument: boxes (N, 4)
    probs,          \* argument: probs (N, C + 1)
    iou_threshold,  \* argument
    remaining,      \* indices not yet visited nor removed, descending objectness
    kept,           \* indices of the boxes that were kept, in visiting order
    removed,        \* indices removed by step 2.2
    iou_calls,      \* batch_iou calls of this run: <<index, candidate indices>>
    nms_boxes,      \* return value (K, 4)
    nms_probs,      \* return value (K, C + 1)
    run,            \* 1: call on the detector output; 2: call on the first result
    first_boxes,    \* nms_boxes of run 1
    first_probs     \* nms_probs of run 1

\* Two calls of non_maximum_suppression, one per image of a batch.
VARIABLES
    args,           \* args[p]: arguments of call p
    frames,         \* frames[q]: local variables remaining, kept, removed
    cpc,            \* cpc[p]: "start" | "loop" | "done" | "error"
    rets            \* rets[p]: <<nms_boxes, nms_probs>> once call p returned

\* draw_boxes(image, boxes, probs)
VARIABLES
    dpc,            \* "call" | "loop" | "done"
    draw_args,      \* [image |-> <<width, height>>, boxes |-> ..., probs |-> ...]
    di,             \* pairs of zip(probs, boxes) consumed so far
    printed,        \* lines printed: <<label, score, box>>
    patches         \* rectangles added to the axes: <<l, u, w, h>>

\* check_batch_iou(fn)
VARIABLES
    kpc,            \* "call" | "loop" | "returned"
    fn_result,      \* torch.as_tensor(fn(reference, boxes)): [shape, data]
    ki,             \* entries of result inspected so far
    check_ret,      \* return value
    check_out       \* lines printed

\* get_cifar10_loader, train_epoch, test_epoch, train_cifar10
VARIABLES
    tpc,            \* position in the function that is running
    entry,          \* the function the notebook called
    cifar,          \* number of images of the two parts of the dataset
    model,          \* [device, training, grad, steps]
    gl,             \* get_cifar10_loader: arguments, locals, return value
    ep,             \* train_epoch / test_epoch: arguments, locals, return value
    tc              \* train_cifar10: arguments, locals, return value

parVars == <<args, frames, cpc, rets>>
drawVars == <<dpc, draw_args, di, printed, patches>>
chkVars == <<kpc, fn_result, ki, check_ret, check_out>>
trainVars == <<tpc, entry, cifar, model, gl, ep, tc>>
auxVars == <<drawVars, chkVars, trainVars>>
iouVars == <<ipc, reference, cands, result>>
nmsVars == <<pc, boxes, probs, iou_threshold, remaining, kept, removed,
             iou_calls, nms_boxes, nms_probs, run, first_boxes, first_probs>>
vars == <<ipc, reference, cands, result, pc, boxes, probs, iou_threshold,
          remaining, kept, removed, iou_calls, nms_boxes, nms_probs, run,
          first_boxes, first_probs, args, frames, cpc, rets,
          dpc, draw_args, di, printed, patches,
          kpc, fn_result, ki, check_ret, check_out,
          tpc, entry, cifar, model, gl, ep, tc>>

SeqsUpTo(S, n) == UNION {[1..k -> S] : k \in 0..n}

\* ----------------------------------------------------------------- inputs
\* Rectangles with left <= right and top <= bottom on the grid 0..MaxCoord.
GridBoxes ==
    {bx \in {<<l, t, r, b>> : l \in 0..MaxCoord, t \in 0..MaxCoord,
                              r \in 0..MaxCoord, b \in 0..MaxCoord} :
        bx[1] <= bx[3] /\ bx[2] <= bx[4]}

\* IoU: A/B 1/2, A/C 2/3, B/C 1/3, D (zero area) 0 with everything.
BoxA == <<0, 0, 2, 2>>
BoxB == <<0, 0, 2, 1>>
BoxC == <<0, 0, 3, 2>>
BoxD == <<0, 0, 0, 0>>
BoxPool == {BoxA, BoxB, BoxC, BoxD}

\* (ship, cat, no object) in units of 1/Scale
ProbPool == {<<16, 0, 4>>, <<0, 16, 4>>, <<0, 0, 20>>}
EmptyProb == <<>>

Thresholds == {<<1, 2>>, <<1, 3>>, <<1, 1>>}
BadThresholds == {<<0, 1>>, <<3, 2>>, <<-1, 2>>}

\* Five boxes, every pair with IoU above 1/2, distinct objectness.
ClusterBoxes == << <<0, 0, 10, 8>>, <<0, 0, 10, 10>>, <<0, 0, 10, 9>>,
                   <<0, 0, 9, 10>>, <<1, 0, 10, 10>> >>
ClusterProbs == << <<12, 0, 8>>, <<18, 0, 2>>, <<14, 0, 6>>, <<16, 0, 4>>,
                   <<10, 0, 10>> >>

\* Four ship boxes (objectness 0.9, 0.8, 0.7, 0.6) and one cat box (0.95).
SceneBoxes == << <<0, 0, 10, 9>>, <<0, 0, 10, 10>>, <<20, 20, 30, 30>>,
                 <<0, 0, 9, 10>>, <<1, 0, 10, 10>> >>
SceneProbs == << <<16, 0, 4>>, <<18, 0, 2>>, <<0, 19, 1>>, <<14, 0, 6>>,
                 <<12, 0, 8>> >>

IdleIou ==
    /\ ipc = "idle" /\ reference = <<0, 0, 0, 0>> /\ cands = <<>>
    /\ result = <<>>

IdlePar == args = <<>> /\ frames = <<>> /\ cpc = <<>> /\ rets = <<>>

IdleDraw ==
    /\ dpc = "idle" /\ draw_args = <<>> /\ di = 0
    /\ printed = <<>> /\ patches = <<>>

IdleChk ==
    /\ kpc = "idle" /\ fn_result = <<>> /\ ki = 0
    /\ check_ret = FALSE /\ check_out = <<>>

IdleTrain ==
    /\ tpc = "idle" /\ entry = "none" /\ cifar = <<>> /\ model = <<>>
    /\ gl = <<>> /\ ep = <<>> /\ tc = <<>>

IdleAux == IdleDraw /\ IdleChk /\ IdleTrain

IdleNms ==
    /\ pc = "idle" /\ boxes = <<>> /\ probs = <<>> /\ iou_threshold = <<1, 2>>
    /\ remaining = <<>> /\ kept = <<>> /\ removed = {} /\ iou_calls = <<>>
    /\ nms_boxes = <<>> /\ nms_probs = <<>>
    /\ run = 1 /\ first_boxes = <<>> /\ first_probs = <<>>

\* ------------------------------------------------------ batch_iou, as run
InitIou ==
    /\ IdleNms
    /\ IdlePar
    /\ IdleAux
    /\ ipc = "call"
    /\ result = <<>>
    /\ \/ reference \in GridBoxes /\ cands \in SeqsUpTo(GridBoxes, MaxCand)
       \/ reference = FixtureReference /\ cands = FixtureBoxes

CallBatchIou ==
    /\ ipc = "call"
    /\ result' = BatchIou(reference, cands)
    /\ ipc' = "returned"
    /\ UNCHANGED <<reference, cands>>
    /\ UNCHANGED nmsVars
    /\ UNCHANGED parVars
    /\ UNCHANGED auxVars

\* batch_iou(b, [a]) after batch_iou(a, [b]): the same pair, roles swapped.
CallSwapped ==
    /\ ipc = "returned"
    /\ Len(cands) = 1
    /\ reference' = cands[1]
    /\ cands' = <<reference>>
    /\ result' = BatchIou(cands[1], <<reference>>)
    /\ ipc' = "swapped"
    /\ UNCHANGED nmsVars
    /\ UNCHANGED parVars
    /\ UNCHANGED auxVars

NextIou == CallBatchIou \/ CallSwapped

SpecIou == InitIou /\ [][NextIou]_vars

\* ---------------------------------------- non_maximum_suppression, as run
\* Well-formed detector output: one probability vector per box.
Detections == SeqsUpTo(BoxPool \X ProbPool, MaxN)
\* Inputs for the input checks: probability vectors may be empty, probs may
\* be one row short, the threshold may lie outside (0, 1].
LooseDetections ==
    SeqsUpTo({BoxA, BoxD} \X {<<16, 0, 4>>, <<0, 0, 20>>, EmptyProb}, MaxN)

InitNms ==
    /\ IdleIou
    /\ IdlePar
    /\ IdleAux
    /\ pc = "start"
    /\ remaining = <<>> /\ kept = <<>> /\ removed = {} /\ iou_calls = <<>>
    /\ nms_boxes = <<>> /\ nms_probs = <<>>
    /\ run = 1 /\ first_boxes = <<>> /\ first_probs = <<>>
    /\ \/ /\ iou_threshold \in Thresholds
          /\ \E dets \in Detections :
                /\ boxes = [i \in 1..Len(dets) |-> dets[i][1]]
                /\ probs = [i \in 1..Len(dets) |-> dets[i][2]]
       \/ /\ iou_threshold \in Thresholds \cup BadThresholds
          /\ \E dets \in LooseDetections, short \in BOOLEAN :
                /\ boxes = [i \in 1..Len(dets) |-> dets[i][1]]
                /\ probs = [i \in 1..(Len(dets) - (IF short /\ dets # <<>>
                                                   THEN 1 ELSE 0))
                             |-> dets[i][2]]
       \/ /\ iou_threshold = <<1, 2>>
          /\ \/ boxes = ClusterBoxes /\ probs = ClusterProbs
             \/ boxes = SceneBoxes /\ probs = SceneProbs

BeginSortsInPlace ==
    /\ pc = "start"
    /\ IF ValidInput(boxes, probs, iou_threshold)
       THEN /\ boxes' = Gather(boxes, ArgsortDesc(probs))
            /\ probs' = Gather(probs, ArgsortDesc(probs))
            /\ remaining' = [i \in 1..Len(boxes) |-> i]
            /\ pc' = "loop"
       ELSE /\ remaining' = <<>>
            /\ pc' = "error"
            /\ UNCHANGED <<boxes, probs>>
    /\ kept' = <<>>
    /\ removed' = {}
    /\ iou_calls' = <<>>
    /\ UNCHANGED <<iou_threshold, nms_boxes, nms_probs, run,
                   first_boxes, first_probs>>
    /\ UNCHANGED iouVars
    /\ UNCHANGED parVars
    /\ UNCHANGED auxVars

\* Input checks, then step 1 of the algorithm.
Begin ==
    /\ pc = "start"
    /\ IF ValidInput(boxes, probs, iou_threshold)
       THEN /\ remaining' = ArgsortDesc(probs)
            /\ pc' = "loop"
       ELSE /\ remaining' = <<>>
            /\ pc' = "error"
    /\ kept' = <<>>
    /\ removed' = {}
    /\ iou_calls' = <<>>
    /\ UNCHANGED <<boxes, probs, iou_threshold, nms_boxes, nms_probs, run,
                   first_boxes, first_probs>>
    /\ UNCHANGED iouVars
    /\ UNCHANGED parVars
    /\ UNCHANGED auxVars

StepKeepsHead ==
    /\ pc = "loop"
    /\ remaining # <<>>
    /\ LET i == Head(remaining)
           rest == Tail(remaining)
           ious == BatchIou(boxes[i], Gather(boxes, rest))
           survivors == RemoveOverlapping(rest, ious, iou_threshold)
       IN  /\ kept' = Append(kept, i)
           /\ remaining' = <<i>> \o survivors
           /\ removed' = removed \cup (Range(rest) \ Range(survivors))
           /\ iou_calls' = Append(iou_calls, <<i, rest>>)
    /\ UNCHANGED <<pc, boxes, probs, iou_threshold, nms_boxes, nms_probs, run,
                   first_boxes, first_probs>>
    /\ UNCHANGED iouVars
    /\ UNCHANGED parVars
    /\ UNCHANGED auxVars

StepComparesSelf ==
    /\ pc = "loop"
    /\ remaining # <<>>
    /\ LET i == Head(remaining)
           ious == BatchIou(boxes[i], Gather(boxes, remaining))
           survivors == RemoveOverlapping(remaining, ious, iou_threshold)
       IN  /\ kept' = Append(kept, i)
           /\ remaining' = SelectSeq(survivors, LAMBDA j : j # i)
           /\ removed' = removed \cup (Range(remaining) \ Range(survivors))
           /\ iou_calls' = Append(iou_calls, <<i, remaining>>)
    /\ UNCHANGED <<pc, boxes, probs, iou_threshold, nms_boxes, nms_probs, run,
                   first_boxes, first_probs>>
    /\ UNCHANGED iouVars
    /\ UNCHANGED parVars
    /\ UNCHANGED auxVars

\* Step 2 for the first remaining box: keep it, compute its IoU with the
\* remaining boxes, remove those above the threshold.
Step ==
    /\ pc = "loop"
    /\ remaining # <<>>
    /\ LET i == Head(remaining)
           rest == Tail(remaining)
           ious == BatchIou(boxes[i], Gather(boxes, rest))
           survivors == RemoveOverlapping(rest, ious, iou_threshold)
       IN  /\ kept' = Append(kept, i)
           /\ remaining' = survivors
           /\ removed' = removed \cup (Range(rest) \ Range(survivors))
           /\ iou_calls' = Append(iou_calls, <<i, rest>>)
    /\ UNCHANGED <<pc, boxes, probs, iou_threshold, nms_boxes, nms_probs, run,
                   first_boxes, first_probs>>
    /\ UNCHANGED iouVars
    /\ UNCHANGED parVars
    /\ UNCHANGED auxVars

ReturnProbsByRank ==
    /\ pc = "loop"
    /\ remaining = <<>>
    /\ nms_boxes' = Gather(boxes, kept)
    /\ nms_probs' = [k \in 1..Len(kept) |-> probs[k]]
    /\ pc' = "done"
    /\ UNCHANGED <<boxes, probs, iou_threshold, remaining, kept, removed,
                   iou_calls, run,
                   first_boxes, first_probs>>
    /\ UNCHANGED iouVars
    /\ UNCHANGED parVars
    /\ UNCHANGED auxVars

\* 4. Return the boxes that were kept.
Return ==
    /\ pc = "loop"
    /\ remaining = <<>>
    /\ nms_boxes' = Gather(boxes, kept)
    /\ nms_probs' = Gather(probs, kept)
    /\ pc' = "done"
    /\ UNCHANGED <<boxes, probs, iou_threshold, remaining, kept, removed,
                   iou_calls, run,
                   first_boxes, first_probs>>
    /\ UNCHANGED iouVars
    /\ UNCHANGED parVars
    /\ UNCHANGED auxVars

\* non_maximum_suppression(nms_boxes, nms_probs, iou_threshold): a second
\* call on the result of the first.
Reapply ==
    /\ pc = "done"
    /\ run = 1
    /\ first_boxes' = nms_boxes
    /\ first_probs' = nms_probs
    /\ boxes' = nms_boxes
    /\ probs' = nms_probs
    /\ nms_boxes' = <<>>
    /\ nms_probs' = <<>>
    /\ UNCHANGED <<remaining, kept, removed, iou_calls>>
    /\ run' = 2
    /\ pc' = "start"
    /\ UNCHANGED iou_threshold
    /\ UNCHANGED iouVars
    /\ UNCHANGED parVars
    /\ UNCHANGED auxVars

Next == Begin \/ Step \/ Return \/ Reapply

Spec == InitNms /\ [][Next]_vars

\* A call that has started runs on: the interpreter executes the next statement
\* of non_maximum_suppression as long as there is one. Nothing obliges the
\* notebook to call the function a second time.
InitTerm ==
    /\ InitNms
    /\ iou_threshold = <<1, 2>>
    /\ \/ boxes \in {ClusterBoxes, SceneBoxes}
       \/ /\ Len(probs) = Len(boxes)
          /\ \A i \in 1..Len(boxes) :
                /\ boxes[i] \in {BoxA, BoxC, BoxD}
                /\ probs[i] \in {<<16, 0, 4>>, <<0, 0, 20>>}

SpecTerm == InitTerm /\ [][Next]_vars /\ WF_vars(Begin \/ Step \/ Return)

\* ------------------------------- the local variables of one call, as a value
EmptyFrame == [remaining |-> <<>>, kept |-> <<>>, removed |-> {}]

\* 1. Order boxes by object probability in the descending order.
BeginFrame(a) ==
    [remaining |-> ArgsortDesc(a.probs), kept |-> <<>>, removed |-> {}]

BeginFrameTiesReversed(a) ==
    [remaining |->
        LET s == ArgsortDesc(a.probs)
        IN  IF Len(s) >= 2 /\ Objectness(a.probs[s[1]]) = Objectness(a.probs[s[2]])
            THEN <<s[2], s[1]>> \o SubSeq(s, 3, Len(s))
            ELSE s,
     kept |-> <<>>, removed |-> {}]

\* 2. One round of the loop on the first remaining box.
StepFrame(a, fr) ==
    LET i == Head(fr.remaining)
        rest == Tail(fr.remaining)
        ious == BatchIou(a.boxes[i], Gather(a.boxes, rest))
        survivors == RemoveOverlapping(rest, ious, a.thr)
    IN  [remaining |-> survivors,
         kept |-> Append(fr.kept, i),
         removed |-> fr.removed \cup (Range(rest) \ Range(survivors))]

\* 4. Return the boxes that were kept.
ResultOf(a, fr) == <<Gather(a.boxes, fr.kept), Gather(a.probs, fr.kept)>>

RECURSIVE LoopAlone(_, _)
LoopAlone(a, fr) ==
    IF fr.remaining = <<>> THEN fr ELSE LoopAlone(a, StepFrame(a, fr))

\* The result of a call that runs from start to end with nothing else running.
AloneResult(a) ==
    IF ValidInput(a.boxes, a.probs, a.thr)
    THEN ResultOf(a, LoopAlone(a, BeginFrame(a)))
    ELSE <<>>

\* ------------------------- two calls of non_maximum_suppression side by side
Calls == {1, 2}

\* IOU_THRESHOLD = 0.5
ParThreshold == <<1, 2>>

\* The detector emits ParN detections per image.
ParDetPool ==
    { <<BoxA, <<16, 0, 4>> >>, <<BoxA, <<0, 16, 4>> >>,
      <<BoxB, <<16, 0, 4>> >>, <<BoxC, <<0, 16, 4>> >>,
      <<BoxC, <<0, 0, 20>> >> }

ParInputs ==
    { [boxes |-> [i \in 1..ParN |-> dets[i][1]],
       probs |-> [i \in 1..ParN |-> dets[i][2]],
       thr |-> ParThreshold] : dets \in [1..ParN -> ParDetPool] }

InitPar ==
    /\ IdleIou
    /\ IdleNms
    /\ IdleAux
    /\ args \in [Calls -> ParInputs]
    /\ frames = [q \in Calls |-> EmptyFrame]
    /\ cpc = [p \in Calls |-> "start"]
    /\ rets = [p \in Calls |-> <<>>]

FrameShared(p) == 1
\* Each call has its own local variables.
Frame(p) == p

ParBeginTieOrderVaries(p) ==
    /\ cpc[p] = "start"
    /\ IF ValidInput(args[p].boxes, args[p].probs, args[p].thr)
       THEN /\ frames' = [frames EXCEPT ![Frame(p)] =
                             IF p = 1 THEN BeginFrame(args[p])
                             ELSE BeginFrameTiesReversed(args[p])]
            /\ cpc' = [cpc EXCEPT ![p] = "loop"]
       ELSE /\ cpc' = [cpc EXCEPT ![p] = "error"]
            /\ UNCHANGED frames
    /\ UNCHANGED <<args, rets>>
    /\ UNCHANGED iouVars
    /\ UNCHANGED nmsVars
    /\ UNCHANGED auxVars

ParBegin(p) ==
    /\ cpc[p] = "start"
    /\ IF ValidInput(args[p].boxes, args[p].probs, args[p].thr)
       THEN /\ frames' = [frames EXCEPT ![Frame(p)] = BeginFrame(args[p])]
            /\ cpc' = [cpc EXCEPT ![p] = "loop"]
       ELSE /\ cpc' = [cpc EXCEPT ![p] = "error"]
            /\ UNCHANGED frames
    /\ UNCHANGED <<args, rets>>
    /\ UNCHANGED iouVars
    /\ UNCHANGED nmsVars
    /\ UNCHANGED auxVars

ParStep(p) ==
    /\ cpc[p] = "loop"
    /\ frames[Frame(p)].remaining # <<>>
    /\ frames' = [frames EXCEPT ![Frame(p)] = StepFrame(args[p], frames[Frame(p)])]
    /\ UNCHANGED <<args, cpc, rets>>
    /\ UNCHANGED iouVars
    /\ UNCHANGED nmsVars
    /\ UNCHANGED auxVars

ParReturn(p) ==
    /\ cpc[p] = "loop"
    /\ frames[Frame(p)].remaining = <<>>
    /\ rets' = [rets EXCEPT ![p] = ResultOf(args[p], frames[Frame(p)])]
    /\ cpc' = [cpc EXCEPT ![p] = "done"]
    /\ UNCHANGED <<args, frames>>
    /\ UNCHANGED iouVars
    /\ UNCHANGED nmsVars
    /\ UNCHANGED auxVars

NextPar == \E p \in Calls : ParBegin(p) \/ ParStep(p) \/ ParReturn(p)

SpecPar == InitPar /\ [][NextPar]_vars

\* ------------------------------ either function, called from the notebook
SpecBoth == (InitIou \/ InitNms) /\ [][NextIou \/ Next]_vars

\* ------------------------------------------------------------- draw_boxes
MaxDraw == 2       \* detections per draw_boxes call

\* CONFIDENCE_THRESHOLD = 0.5
CONFIDENCE_THRESHOLD == <<1, 2>>
\* if label == 91: "No object."
NoObjectLabel == 91
\* probs has C + 1 columns, the last one (index 91) for "no object"
NumLogits == NoObjectLabel + 1

\* A probability vector that is zero except at the labels of f.
ProbVec(f) ==
    [k \in 1..NumLogits |-> IF (k - 1) \in DOMAIN f THEN f[k - 1] ELSE 0]

\* Labels 9 and 17 stand for two object classes of the detector.
DrawProbPool ==
    { ProbVec((17 :> 16) @@ (91 :> 4)),            \* 0.8 on a class
      ProbVec((9 :> 10) @@ (17 :> 6) @@ (91 :> 4)),   \* exactly 0.5 on a class
      ProbVec((9 :> 9) @@ (17 :> 7) @@ (91 :> 4)),    \* 0.45 at most
      ProbVec((9 :> 4) @@ (91 :> 16)),             \* 0.8 on "no object"
      ProbVec((9 :> 10) @@ (91 :> 10)),            \* 0.5 on a class and on 91
      ProbVec((91 :> 20)) }                        \* 1.0 on "no object"

\* Corners in quarters of the image side.
DrawBoxPool == {<<0, 0, 2, 2>>, <<1, 2, 4, 3>>}
ImageSizes == {<<8, 6>>}

InitDraw ==
    /\ IdleIou /\ IdleNms /\ IdlePar /\ IdleChk /\ IdleTrain
    /\ dpc = "call"
    /\ di = 0 /\ printed = <<>> /\ patches = <<>>
    /\ \E size \in ImageSizes,
          dets \in SeqsUpTo(DrawBoxPool \X DrawProbPool, MaxDraw) :
            draw_args = [image |-> size,
                         boxes |-> [i \in 1..Len(dets) |-> dets[i][1]],
                         probs |-> [i \in 1..Len(dets) |-> dets[i][2]]]

\* p.max(dim=-1): the largest entry and the index (from 0) of its first
\* occurrence.
\* The reduction over p[lo..hi], by halves; of equal entries the left one wins.
RECURSIVE ArgMaxIn(_, _, _)
ArgMaxIn(p, lo, hi) ==
    IF lo = hi THEN lo
    ELSE LET mid == (lo + hi) \div 2
             left == ArgMaxIn(p, lo, mid)
             right == ArgMaxIn(p, mid + 1, hi)
         IN  IF p[left] >= p[right] THEN left ELSE right
PMax(p) == LET k == ArgMaxIn(p, 1, Len(p)) IN <<p[k], k - 1>>

BelowConfidenceOrEqual(score) ==
    Leq(<<score, Scale>>, CONFIDENCE_THRESHOLD)
\* score < CONFIDENCE_THRESHOLD
BelowConfidence(score) ==
    Gt(CONFIDENCE_THRESHOLD, <<score, Scale>>)

\* patches.Rectangle((l, u), w, h) in image coordinates
PatchOf(box, size) ==
    LET l == box[1] * size[1]
        r == box[3] * size[1]
        u == box[2] * size[2]
        b == box[4] * size[2]
    IN  <<l, u, r - l, b - u>>

\* plt.imshow(image); image_width, image_height = image.size
DrawBegin ==
    /\ dpc = "call"
    /\ dpc' = "loop"
    /\ UNCHANGED <<draw_args, di, printed, patches>>
    /\ UNCHANGED <<iouVars, nmsVars, parVars, chkVars, trainVars>>

\* One round of "for p, box in zip(probs, boxes)".
DrawNext ==
    /\ dpc = "loop"
    /\ di < Min2(Len(draw_args.probs), Len(draw_args.boxes))
    /\ LET p == draw_args.probs[di + 1]
           box == draw_args.boxes[di + 1]
           score == PMax(p)[1]
           label == PMax(p)[2]
       IN  IF BelowConfidence(score)
           THEN UNCHANGED <<printed, patches>>
           ELSE IF label = NoObjectLabel
           THEN UNCHANGED <<printed, patches>>
           ELSE /\ printed' = Append(printed, <<label, score, box>>)
                /\ patches' = Append(patches, PatchOf(box, draw_args.image))
    /\ di' = di + 1
    /\ UNCHANGED <<dpc, draw_args>>
    /\ UNCHANGED <<iouVars, nmsVars, parVars, chkVars, trainVars>>

DrawReturn ==
    /\ dpc = "loop"
    /\ di = Min2(Len(draw_args.probs), Len(draw_args.boxes))
    /\ dpc' = "done"
    /\ UNCHANGED <<draw_args, di, printed, patches>>
    /\ UNCHANGED <<iouVars, nmsVars, parVars, chkVars, trainVars>>

NextDraw == DrawBegin \/ DrawNext \/ DrawReturn

SpecDraw == InitDraw /\ [][NextDraw]_vars

\* -------------------------------------------------------- check_batch_iou
\* Values an entry of fn's result may take: the expected ones, values at and
\* just beyond the tolerance, and NaN (<<0, 0>>).
EntryPool ==
    { <<2, 3>>, <<1, 9>>, <<0, 1>>, <<2000003, 3000000>>,
      <<2000004, 3000000>>, <<1, 1000000>>, <<0, 0>> }

\* Results of shape (4,), and results of other shapes: (), (3,), (5,), (4, 1).
FnResults ==
    {[shape |-> <<4>>, data |-> d] : d \in [1..4 -> EntryPool]}
    \cup {[shape |-> sh, data |-> IouGt] : sh \in {<<4, 1>>, <<2, 2>>}}
    \cup {[shape |-> <<>>, data |-> <<IouGt[1]>>],
          [shape |-> <<3>>, data |-> SubSeq(IouGt, 1, 3)],
          [shape |-> <<5>>, data |-> IouGt \o << <<0, 1>> >>]}

InitChk ==
    /\ IdleIou /\ IdleNms /\ IdlePar /\ IdleDraw /\ IdleTrain
    /\ kpc = "call"
    /\ fn_result \in FnResults
    /\ ki = 0 /\ check_ret = FALSE /\ check_out = <<>>

\* if result.shape != (4,): print("Wrong output size"); return False
ChkShape ==
    /\ kpc = "call"
    /\ IF fn_result.shape # <<4>>
       THEN /\ check_out' = <<"Wrong output size">>
            /\ check_ret' = FALSE
            /\ kpc' = "returned"
       ELSE /\ kpc' = "loop"
            /\ UNCHANGED <<check_out, check_ret>>
    /\ UNCHANGED <<fn_result, ki>>
    /\ UNCHANGED <<iouVars, nmsVars, parVars, drawVars, trainVars>>

\* One round of "for i, box in enumerate(boxes)".
ChkEntry ==
    /\ kpc = "loop"
    /\ ki < Len(FixtureBoxes)
    /\ IF ExceedsTol(fn_result.data[ki + 1], IouGt[ki + 1])
       THEN /\ check_out' = <<"Wrong IoU", ki>>
            /\ check_ret' = FALSE
            /\ kpc' = "returned"
            /\ UNCHANGED ki
       ELSE /\ ki' = ki + 1
            /\ UNCHANGED <<check_out, check_ret, kpc>>
    /\ UNCHANGED fn_result
    /\ UNCHANGED <<iouVars, nmsVars, parVars, drawVars, trainVars>>

\* print("OK!"); return True
ChkOk ==
    /\ kpc = "loop"
    /\ ki = Len(FixtureBoxes)
    /\ check_out' = <<"OK!">>
    /\ check_ret' = TRUE
    /\ kpc' = "returned"
    /\ UNCHANGED <<fn_result, ki>>
    /\ UNCHANGED <<iouVars, nmsVars, parVars, drawVars, trainVars>>

NextChk == ChkShape \/ ChkEntry \/ ChkOk

SpecChk == InitChk /\ [][NextChk]_vars

\* ------ get_cifar10_loader, train_epoch, test_epoch, train_cifar10 (02-clip)
MaxEpochs == 2     \* num_epochs is 0..MaxEpochs
MaxBatches == 1    \* full batches in a part of the dataset

\* batch_size=32
BatchSize == 32

\* Images in a part of the dataset: some full batches and a truncated one, as
\* in CIFAR-10 (50000 and 10000 images, 16 more than a multiple of 32).
CifarSizes == {BatchSize * k + 16 : k \in 1..MaxBatches}

Parts == {"train", "test", "val", "Train"}

\* SimpleCNN(): a fresh module is in training mode, on the CPU.
NewModel == [device |-> "cpu", training |-> TRUE, grad |-> "none", steps |-> 0]

NewGl(part, transform) ==
    [part |-> part, transform |-> transform, train |-> FALSE,
     dataset |-> <<>>, created |-> <<>>, ret |-> <<>>]

NewEp(fn, loader) ==
    [fn |-> fn, loader |-> loader, batch |-> 0, n |-> 0, n_correct |-> 0,
     loss |-> <<>>, trace |-> <<>>, ret |-> <<>>]

NewTc(num_epochs) ==
    [num_epochs |-> num_epochs, epoch |-> 0,
     train_loader |-> <<>>, test_loader |-> <<>>,
     losses |-> <<>>, train_accuracies |-> <<>>, test_accuracies |-> <<>>,
     final_loss |-> <<>>, final_accuracy |-> <<>>, test_accuracy |-> <<>>,
     calls |-> <<>>, ret |-> <<>>]

DropLastAlways(train) == TRUE
\* drop_last=train
DropLast(train) == train

\* torch.utils.data.DataLoader(dataset, batch_size=32, num_workers=4, ...)
DataLoader(dataset) ==
    [dataset |-> dataset, batch_size |-> BatchSize, num_workers |-> 4,
     drop_last |-> DropLast(dataset.train)]

\* The batches a loader yields: the full ones, then the truncated one unless
\* drop_last.
NumBatches(l) ==
    (l.dataset.size \div l.batch_size)
    + (IF ~l.drop_last /\ l.dataset.size % l.batch_size > 0 THEN 1 ELSE 0)
BatchLen(l, b) ==
    IF b <= l.dataset.size \div l.batch_size
    THEN l.batch_size
    ELSE l.dataset.size % l.batch_size

\* Loaders train_epoch may be handed: empty, shorter than a batch, or longer.
Loaders ==
    { [dataset |-> [train |-> TRUE, transform |-> "tensor", size |-> sz],
       batch_size |-> BatchSize, num_workers |-> 4, drop_last |-> dl] :
        sz \in {0, 16} \cup {BatchSize * k + r : k \in 1..MaxBatches, r \in {0, 16}},
        dl \in BOOLEAN }

\* (predictions == y).sum().item() of a batch of the given size
Hits(size) == {0, size}

NumelOne(size) == 1
\* y.numel()
Numel(size) == size

InitTrain ==
    /\ IdleIou /\ IdleNms /\ IdlePar /\ IdleDraw /\ IdleChk
    /\ cifar \in [train : CifarSizes, test : CifarSizes]
    /\ \/ /\ entry = "get_cifar10_loader" /\ tpc = "gl_part"
          /\ \E part \in Parts, transform \in BOOLEAN :
                gl = NewGl(part, transform)
          /\ model = NewModel /\ ep = <<>> /\ tc = <<>>
       \/ /\ entry = "train_epoch" /\ tpc = "te_enter"
          /\ \E loader \in Loaders : ep = NewEp("train_epoch", loader)
          /\ \E training \in BOOLEAN :
                model = [NewModel EXCEPT !.training = training]
          /\ gl = <<>> /\ tc = <<>>
       \/ /\ entry = "train_cifar10" /\ tpc = "tc_call"
          /\ \E num_epochs \in 0..MaxEpochs : tc = NewTc(num_epochs)
          /\ model = NewModel /\ gl = <<>> /\ ep = <<>>

\* The calls train_cifar10 has made and seen return, in order.
Logged(ev) ==
    IF entry = "train_cifar10"
    THEN [tc EXCEPT !.calls = Append(@, ev)]
    ELSE tc

notTrainVars == <<iouVars, nmsVars, parVars, drawVars, chkVars>>

\* get_cifar10_loader: if part == "train" ... elif part == "test" ... else raise
GlPart ==
    /\ tpc = "gl_part"
    /\ IF gl.part = "train"
       THEN gl' = [gl EXCEPT !.train = TRUE] /\ tpc' = "gl_transform"
       ELSE IF gl.part = "test"
       THEN gl' = [gl EXCEPT !.train = FALSE] /\ tpc' = "gl_transform"
       ELSE gl' = gl /\ tpc' = "ValueError"
    /\ UNCHANGED <<entry, cifar, model, ep, tc>>
    /\ UNCHANGED notTrainVars

\* if transform: transform = Compose([ToTensor(), Normalize(...)]) else None
GlTransform ==
    /\ tpc = "gl_transform"
    /\ gl' = [gl EXCEPT !.transform =
                 IF gl.transform = TRUE THEN "tensor" ELSE "None"]
    /\ tpc' = "gl_dataset"
    /\ UNCHANGED <<entry, cifar, model, ep, tc>>
    /\ UNCHANGED notTrainVars

\* dataset = torchvision.datasets.CIFAR10(root, train=train, ...)
GlDataset ==
    /\ tpc = "gl_dataset"
    /\ gl' = [gl EXCEPT
                 !.dataset = [train |-> gl.train, transform |-> gl.transform,
                              size |-> IF gl.train THEN cifar.train
                                       ELSE cifar.test],
                 !.created = Append(@, "dataset")]
    /\ tpc' = "gl_loader"
    /\ UNCHANGED <<entry, cifar, model, ep, tc>>
    /\ UNCHANGED notTrainVars

\* return torch.utils.data.DataLoader(dataset, ...)
GlLoader ==
    /\ tpc = "gl_loader"
    /\ gl' = [gl EXCEPT !.ret = DataLoader(gl.dataset),
                        !.created = Append(@, "loader")]
    /\ tpc' = IF entry = "get_cifar10_loader" THEN "gl_returned"
              ELSE IF gl.part = "train" THEN "tc_train_loader"
              ELSE "tc_test_loader"
    /\ UNCHANGED <<entry, cifar, model, ep, tc>>
    /\ UNCHANGED notTrainVars

EvalKeepsMode(m) == m
\* model.eval()
Eval(m) == [m EXCEPT !.training = FALSE]

\* train_epoch: model.train(); n = 0; n_correct = 0
TeEnter ==
    /\ tpc = "te_enter"
    /\ model' = [model EXCEPT !.training = TRUE]
    /\ ep' = [ep EXCEPT !.n = 0, !.n_correct = 0]
    /\ tc' = Logged("train_epoch starts")
    /\ tpc' = "te_for"
    /\ UNCHANGED <<entry, cifar, gl>>
    /\ UNCHANGED notTrainVars

\* for x, y in tqdm(loader): the next batch, or the end of the loop
TeFor ==
    /\ tpc = "te_for"
    /\ IF ep.batch < NumBatches(ep.loader)
       THEN ep' = [ep EXCEPT !.batch = @ + 1] /\ tpc' = "te_forward"
       ELSE ep' = ep /\ tpc' = "te_exit"
    /\ UNCHANGED <<entry, cifar, model, gl, tc>>
    /\ UNCHANGED notTrainVars

\* logits = model(x); loss = cross_entropy(logits, y)
TeForward ==
    /\ tpc = "te_forward"
    /\ ep' = [ep EXCEPT !.loss = <<ep.batch, model.steps>>,
                        !.trace = Append(@, "forward")]
    /\ tpc' = "te_zero_grad"
    /\ UNCHANGED <<entry, cifar, model, gl, tc>>
    /\ UNCHANGED notTrainVars

\* optimizer.zero_grad()
TeZeroGrad ==
    /\ tpc = "te_zero_grad"
    /\ model' = [model EXCEPT !.grad = "zero"]
    /\ ep' = [ep EXCEPT !.trace = Append(@, "zero_grad")]
    /\ tpc' = "te_backward"
    /\ UNCHANGED <<entry, cifar, gl, tc>>
    /\ UNCHANGED notTrainVars

\* loss.backward(): gradients are added to what .grad holds
TeBackward ==
    /\ tpc = "te_backward"
    /\ model' = [model EXCEPT !.grad =
                    IF @ = "zero" THEN "of this batch" ELSE "accumulated"]
    /\ ep' = [ep EXCEPT !.trace = Append(@, "backward")]
    /\ tpc' = "te_step"
    /\ UNCHANGED <<entry, cifar, gl, tc>>
    /\ UNCHANGED notTrainVars

\* optimizer.step()
TeStep ==
    /\ tpc = "te_step"
    /\ model' = [model EXCEPT !.steps = @ + 1]
    /\ ep' = [ep EXCEPT !.trace = Append(@, "step")]
    /\ tpc' = "te_metrics"
    /\ UNCHANGED <<entry, cifar, gl, tc>>
    /\ UNCHANGED notTrainVars

\* n_correct += (predictions == y).sum().item(); n += y.numel()
TeMetrics ==
    /\ tpc = "te_metrics"
    /\ \E c \in Hits(BatchLen(ep.loader, ep.batch)) :
          ep' = [ep EXCEPT !.n_correct = @ + c,
                           !.n = @ + Numel(BatchLen(ep.loader, ep.batch)),
                           !.trace = Append(@, "metrics")]
    /\ tpc' = "te_for"
    /\ UNCHANGED <<entry, cifar, model, gl, tc>>
    /\ UNCHANGED notTrainVars

\* accuracy = n_correct / n; return loss.item(), accuracy
TeExit ==
    /\ tpc = "te_exit"
    /\ IF ep.n = 0
       THEN /\ tpc' = "ZeroDivisionError"
            /\ UNCHANGED <<ep, tc>>
       ELSE /\ ep' = [ep EXCEPT !.ret = <<ep.loss, <<ep.n_correct, ep.n>> >>]
            /\ tc' = Logged("train_epoch returns")
            /\ tpc' = IF entry = "train_epoch" THEN "te_returned"
                      ELSE "tc_train_ret"
    /\ UNCHANGED <<entry, cifar, model, gl>>
    /\ UNCHANGED notTrainVars

\* test_epoch: model.eval(); n = 0; n_correct = 0
VeEnter ==
    /\ tpc = "ve_enter"
    /\ model' = Eval(model)
    /\ ep' = [ep EXCEPT !.n = 0, !.n_correct = 0]
    /\ tc' = Logged("test_epoch starts")
    /\ tpc' = "ve_for"
    /\ UNCHANGED <<entry, cifar, gl>>
    /\ UNCHANGED notTrainVars

\* for x, y in tqdm(loader): the next batch, or the end of the loop
VeFor ==
    /\ tpc = "ve_for"
    /\ IF ep.batch < NumBatches(ep.loader)
       THEN ep' = [ep EXCEPT !.batch = @ + 1] /\ tpc' = "ve_batch"
       ELSE ep' = ep /\ tpc' = "ve_exit"
    /\ UNCHANGED <<entry, cifar, model, gl, tc>>
    /\ UNCHANGED notTrainVars

\* logits = model(x); predictions = ...; n_correct += ...; n += y.numel()
VeBatch ==
    /\ tpc = "ve_batch"
    /\ \E c \in Hits(BatchLen(ep.loader, ep.batch)) :
          ep' = [ep EXCEPT !.n_correct = @ + c,
                           !.n = @ + Numel(BatchLen(ep.loader, ep.batch))]
    /\ tpc' = "ve_for"
    /\ UNCHANGED <<entry, cifar, model, gl, tc>>
    /\ UNCHANGED notTrainVars

\* accuracy = n_correct / n; return accuracy
VeExit ==
    /\ tpc = "ve_exit"
    /\ IF ep.n = 0
       THEN /\ tpc' = "ZeroDivisionError"
            /\ UNCHANGED <<ep, tc>>
       ELSE /\ ep' = [ep EXCEPT !.ret = <<ep.n_correct, ep.n>>]
            /\ tc' = Logged("test_epoch returns")
            /\ tpc' = "tc_test_ret"
    /\ UNCHANGED <<entry, cifar, model, gl>>
    /\ UNCHANGED notTrainVars

\* train_cifar10: model.to(DEVICE); train_loader = get_cifar10_loader("train")
TcBegin ==
    /\ tpc = "tc_call"
    /\ model' = [model EXCEPT !.device = "DEVICE"]
    /\ gl' = NewGl("train", TRUE)
    /\ tpc' = "gl_part"
    /\ UNCHANGED <<entry, cifar, ep, tc>>
    /\ UNCHANGED notTrainVars

\* test_loader = get_cifar10_loader("test")
TcTestLoader ==
    /\ tpc = "tc_train_loader"
    /\ tc' = [tc EXCEPT !.train_loader = gl.ret]
    /\ gl' = NewGl("test", TRUE)
    /\ tpc' = "gl_part"
    /\ UNCHANGED <<entry, cifar, model, ep>>
    /\ UNCHANGED notTrainVars

\* losses = []; train_accuracies = []; test_accuracies = []
TcLists ==
    /\ tpc = "tc_test_loader"
    /\ tc' = [tc EXCEPT !.test_loader = gl.ret, !.losses = <<>>,
                        !.train_accuracies = <<>>, !.test_accuracies = <<>>]
    /\ tpc' = "tc_for"
    /\ UNCHANGED <<entry, cifar, model, gl, ep>>
    /\ UNCHANGED notTrainVars

\* for epoch in range(num_epochs): ... train_epoch(model, optimizer,
\* train_loader); after the loop: return losses, train_accuracies,
\* test_accuracies
TcFor ==
    /\ tpc = "tc_for"
    /\ IF tc.epoch < tc.num_epochs
       THEN /\ ep' = NewEp("train_epoch", tc.train_loader)
            /\ tpc' = "te_enter"
            /\ UNCHANGED tc
       ELSE /\ tc' = [tc EXCEPT !.ret = <<tc.losses, tc.train_accuracies,
                                          tc.test_accuracies>>]
            /\ tpc' = "tc_returned"
            /\ UNCHANGED ep
    /\ UNCHANGED <<entry, cifar, model, gl>>
    /\ UNCHANGED notTrainVars

\* final_loss, final_accuracy = <train_epoch's result>;
\* with torch.no_grad(): test_epoch(model, test_loader)
TcTest ==
    /\ tpc = "tc_train_ret"
    /\ tc' = [tc EXCEPT !.final_loss = ep.ret[1], !.final_accuracy = ep.ret[2]]
    /\ ep' = NewEp("test_epoch", tc.test_loader)
    /\ tpc' = "ve_enter"
    /\ UNCHANGED <<entry, cifar, model, gl>>
    /\ UNCHANGED notTrainVars

\* test_accuracy = <test_epoch's result>; the three appends; next epoch
TcAppend ==
    /\ tpc = "tc_test_ret"
    /\ tc' = [tc EXCEPT !.test_accuracy = ep.ret,
                        !.losses = Append(@, tc.final_loss),
                        !.train_accuracies = Append(@, tc.final_accuracy),
                        !.test_accuracies = Append(@, ep.ret),
                        !.epoch = @ + 1]
    /\ tpc' = "tc_for"
    /\ UNCHANGED <<entry, cifar, model, gl, ep>>
    /\ UNCHANGED notTrainVars

NextTrain ==
    \/ GlPart \/ GlTransform \/ GlDataset \/ GlLoader
    \/ TeEnter \/ TeFor \/ TeForward \/ TeZeroGrad \/ TeBackward \/ TeStep
    \/ TeMetrics \/ TeExit
    \/ VeEnter \/ VeFor \/ VeBatch \/ VeExit
    \/ TcBegin \/ TcTestLoader \/ TcLists \/ TcFor \/ TcTest \/ TcAppend

SpecTrain == InitTrain /\ [][NextTrain]_vars

\* ------------------------------------------------------------- geometry
\* Unit cells covered by a rectangle with integer corners; the overlap of two
\* rectangles is counted cell by cell, independently of the area formulas.
CellsOf(b) == {<<x, y>> : x \in b[1]..(b[3] - 1), y \in b[2]..(b[4] - 1)}
GeomIoU(a, b) ==
    LET u == Cardinality(CellsOf(a) \cup CellsOf(b))
    IN  IF u = 0 THEN <<0, 1>>
        ELSE <<Cardinality(CellsOf(a) \cap CellsOf(b)), u>>

Injections(K, N) ==
    {f \in [1..K -> 1..N] : \A x, y \in 1..K : x # y => f[x] # f[y]}

\* ----------------------------------------------------------------- claims

C5_BoundaryKept ==
    pc = "done" =>
        \A i, j \in 1..Len(boxes) :
            ( /\ i # j
              /\ EqR(GeomIoU(boxes[i], boxes[j]), iou_threshold)
              /\ \A k \in Range(kept) \ {i, j} :
                    /\ Leq(GeomIoU(boxes[k], boxes[i]), iou_threshold)
                    /\ Leq(GeomIoU(boxes[k], boxes[j]), iou_threshold) )
            => (i \in Range(kept) /\ j \in Range(kept))
C5_StrictRemoval ==
    [][ \A j \in removed' \ removed :
            remaining # <<>> /\
            Gt(GeomIoU(boxes[Head(remaining)], boxes[j]), iou_threshold) ]_vars
AllPairsAbove(bxs, t) ==
    \A i, j \in 1..Len(bxs) : i # j => Gt(GeomIoU(bxs[i], bxs[j]), t)
DistinctObjectness(prs) ==
    \A i, j \in 1..Len(prs) :
        i # j => prs[i][Len(prs[i])] # prs[j][Len(prs[j])]

BadInput ==
    \/ Len(boxes) # Len(probs)
    \/ iou_threshold[1] * 1 <= 0 * iou_threshold[2]
    \/ iou_threshold[1] * 1 > 1 * iou_threshold[2]
    \/ \E i \in 1..Len(probs) : Len(probs[i]) = 0
RawWidth(a, b) ==
    (IF a[3] < b[3] THEN a[3] ELSE b[3]) - (IF a[1] > b[1] THEN a[1] ELSE b[1])
RawHeight(a, b) ==
    (IF a[4] < b[4] THEN a[4] ELSE b[4]) - (IF a[2] > b[2] THEN a[2] ELSE b[2])

SameBackground(prs, qrs) ==
    /\ Len(prs) = Len(qrs)
    /\ \A i \in 1..Len(prs) : prs[i][Len(prs[i])] = qrs[i][Len(qrs[i])]

RanksBefore(prs, k, i) ==
    LET ok == Scale - prs[k][Len(prs[k])]
        oi == Scale - prs[i][Len(prs[i])]
    IN  ok > oi \/ (ok = oi /\ k < i)

C18_ArgsUntouched ==
    [][ /\ pc \in {"start", "loop"} =>
              (boxes' = boxes /\ probs' = probs /\
               iou_threshold' = iou_threshold)
        /\ ipc = "call" => (reference' = reference /\ cands' = cands) ]_vars
C18_NothingPersists ==
    pc = "done" =>
        <<nms_boxes, nms_probs>> =
            AloneResult([boxes |-> boxes, probs |-> probs,
                         thr |-> iou_threshold])
C21_Shrinks ==
    [][ (pc = "loop" /\ pc' = "loop")
        => /\ Len(remaining') < Len(remaining)
           /\ Range(remaining') \subseteq Range(remaining) \ {Head(remaining)}
           /\ Len(kept') = Len(kept) + 1 ]_vars
C21_AtMostN ==
    pc \in {"loop", "done"} =>
        /\ Len(kept) <= Len(boxes)
        /\ Len(kept) + Len(remaining) <= Len(boxes)
C21_Ends == (pc = "loop") ~> (pc = "done" /\ remaining = <<>>)
TopScore(p) == CHOOSE v \in Range(p) : \A k \in 1..Len(p) : p[k] <= v
TopLabel(p) ==
    LET top == TopScore(p)
    IN  (CHOOSE k \in 1..Len(p) :
            p[k] = top /\ \A j \in 1..(k - 1) : p[j] < top) - 1
ShouldDraw(p) == 2 * TopScore(p) >= Scale /\ TopLabel(p) # 91
DrawnUpTo(n) == {i \in 1..n : ShouldDraw(draw_args.probs[i])}

\* C22: draw_boxes prints and draws a detection if and only if the greatest
\* of all C + 1 entries of its probability vector is at least 0.5 (0.5
\* itself included) and sits at an index other than 91; every other
\* detection leaves no printed line and no rectangle.
C22_DrawnIff ==
    dpc \in {"loop", "done"} =>
        /\ Len(patches) = Cardinality(DrawnUpTo(di))
        /\ Len(printed) = Cardinality(DrawnUpTo(di))
        /\ \A i \in DrawnUpTo(di) :
              LET k == Cardinality(DrawnUpTo(i))
                  box == draw_args.boxes[i]
                  w == draw_args.image[1]
                  h == draw_args.image[2]
              IN  /\ patches[k] = <<box[1] * w, box[2] * h,
                                    (box[3] - box[1]) * w, (box[4] - box[2]) * h>>
                  /\ printed[k] = <<TopLabel(draw_args.probs[i]),
                                    TopScore(draw_args.probs[i]), box>>
\* A score of exactly 0.5 on a class was drawn, a "no object" detection and a
\* detection with 0.5 on both a class and "no object" were handled.
C22_Witness ==
    /\ dpc = "done" /\ Len(draw_args.probs) = 2
    /\ 2 * TopScore(draw_args.probs[1]) = Scale
    /\ draw_args.probs[1][NumLogits] < TopScore(draw_args.probs[1])
    /\ draw_args.probs[2][NumLogits] > 10
    /\ Len(patches) = 1 /\ printed[1][1] = 9

\* x is a number within 1e-6 of g.
WithinTol(x, g) ==
    /\ x[2] # 0
    /\ Abs(x[1] * g[2] - g[1] * x[2]) <= (x[2] * g[2]) \div 1000000

\* C23: check_batch_iou returns True if and only if the result has shape (4,)
\* and every entry is within 1e-6 of [2/3, 1/9, 0, 0]. (Violated: an entry
\* that is NaN passes the test abs(result[i] - iou_gt[i]) > 1e-6.)
C23_TrueIffWithinTolerance ==
    kpc = "returned" =>
        (check_ret <=>
            /\ fn_result.shape = <<4>>
            /\ \A i \in 1..4 :
                  WithinTol(fn_result.data[i], << <<2, 3>>, <<1, 9>>,
                                                  <<0, 1>>, <<0, 1>> >>[i]))
\* C23, the parts that hold: on results without NaN the verdict is as
\* claimed; a wrong shape returns False with no entry inspected; otherwise
\* False is returned at the first entry that is off by more than 1e-6.
C23_ExceptNaN ==
    kpc = "returned" =>
        /\ (\A i \in 1..Len(fn_result.data) : fn_result.data[i][2] # 0)
           => (check_ret <=>
                 /\ fn_result.shape = <<4>>
                 /\ \A i \in 1..4 : WithinTol(fn_result.data[i], IouGt[i]))
        /\ fn_result.shape # <<4>>
           => (~check_ret /\ ki = 0 /\ check_out = <<"Wrong output size">>)
        /\ (fn_result.shape = <<4>> /\ ~check_ret)
           => /\ ki < 4
              /\ ExceedsTol(fn_result.data[ki + 1], IouGt[ki + 1])
              /\ \A j \in 1..ki : ~ExceedsTol(fn_result.data[j], IouGt[j])
C23_NaNAccepted ==
    /\ kpc = "returned" /\ check_ret /\ check_out = <<"OK!">>
    /\ \A i \in 1..4 : fn_result.data[i] = <<0, 0>>

TrainStages ==
    {"te_for", "te_forward", "te_zero_grad", "te_backward", "te_step",
     "te_metrics", "te_exit"}
TestStages == {"ve_for", "ve_batch", "ve_exit"}
EpochCalls ==
    <<"train_epoch starts", "train_epoch returns",
      "test_epoch starts", "test_epoch returns">>

\* C28: train_cifar10 runs exactly num_epochs epochs; in each, train_epoch
\* returns before test_epoch starts; the model is in training mode inside
\* train_epoch and in evaluation mode inside test_epoch; each epoch appends
\* one value to each of the three lists, which are returned with length
\* num_epochs.
C28_EpochsInOrder ==
    /\ tpc \in TrainStages => model.training
    /\ tpc \in TestStages => ~model.training
    /\ entry = "train_cifar10" =>
          /\ tpc \notin {"ZeroDivisionError", "ValueError"}
          /\ \A k \in 1..Len(tc.calls) : tc.calls[k] = EpochCalls[((k - 1) % 4) + 1]
          /\ Len(tc.calls) <= 4 * tc.num_epochs
          /\ Len(tc.train_accuracies) = Len(tc.losses)
          /\ Len(tc.test_accuracies) = Len(tc.losses)
          /\ tpc = "tc_for" => 4 * Len(tc.losses) = Len(tc.calls)
          /\ tpc = "tc_returned" =>
                /\ Len(tc.calls) = 4 * tc.num_epochs
                /\ Len(tc.ret[1]) = tc.num_epochs
                /\ Len(tc.ret[2]) = tc.num_epochs
                /\ Len(tc.ret[3]) = tc.num_epochs
\* Two epochs have run and train_cifar10 has returned; the two epochs differ
\* in accuracy.
C28_Witness ==
    /\ entry = "train_cifar10" /\ tpc = "tc_returned"
    /\ tc.num_epochs = 2 /\ Len(tc.ret[1]) = 2
    /\ tc.ret[2][1] # tc.ret[2][2] /\ tc.ret[3][1] # tc.ret[3][2]
    /\ model.steps >= 2 /\ ~model.training

BatchSteps == <<"forward", "zero_grad", "backward", "step", "metrics">>
\* The labels a loader yields in one pass, from its size alone.
LabelsIn(l) ==
    IF l.drop_last
    THEN l.dataset.size - (l.dataset.size % l.batch_size)
    ELSE l.dataset.size
BatchesIn(l) ==
    IF l.drop_last
    THEN l.dataset.size \div l.batch_size
    ELSE (l.dataset.size + l.batch_size - 1) \div l.batch_size

\* C29: in train_epoch every batch goes through forward, zero_grad, backward,
\* step, metrics, once each and in this order (so the step applies the
\* gradients of this batch alone); after the loop n is the number of labels
\* the loader yielded, 0 <= n_correct <= n, and with at least one batch the
\* returned accuracy lies in [0, 1].
C29_BatchSteps ==
    /\ tpc \in TrainStages \cup {"te_returned", "tc_train_ret"} =>
          /\ \A k \in 1..Len(ep.trace) :
                ep.trace[k] = BatchSteps[((k - 1) % 5) + 1]
          /\ 0 <= ep.n_correct /\ ep.n_correct <= ep.n
          /\ tpc = "te_for" => Len(ep.trace) = 5 * ep.batch
          /\ tpc = "te_step" => model.grad = "of this batch"
          /\ tpc \in {"te_exit", "te_returned", "tc_train_ret"} =>
                /\ Len(ep.trace) = 5 * BatchesIn(ep.loader)
                /\ ep.n = LabelsIn(ep.loader)
          /\ tpc \in {"te_returned", "tc_train_ret"} =>
                /\ ep.ret[2] = <<ep.n_correct, ep.n>>
                /\ ep.ret[2][2] > 0
                /\ 0 <= ep.ret[2][1] /\ ep.ret[2][1] <= ep.ret[2][2]
    /\ (entry = "train_epoch" /\ BatchesIn(ep.loader) >= 1)
       => tpc # "ZeroDivisionError"
\* train_epoch returned after two batches, a full one and a truncated one,
\* with some predictions right and some wrong.
C29_Witness ==
    /\ entry = "train_epoch" /\ tpc = "te_returned"
    /\ ep.batch = 2 /\ Len(ep.trace) = 10
    /\ 0 < ep.n_correct /\ ep.n_correct < ep.n
    /\ ep.n = 48

\* C30: get_cifar10_loader raises ValueError for a part other than "train"
\* and "test", before a dataset or a loader is created; for "train" the
\* loader drops the truncated last batch, for "test" it keeps it.
C30_PartChecked ==
    entry = "get_cifar10_loader" =>
        /\ gl.part \notin {"train", "test"} =>
              (tpc \in {"gl_part", "ValueError"} /\ gl.created = <<>>)
        /\ tpc = "ValueError" =>
              (gl.part \notin {"train", "test"} /\ gl.created = <<>>)
        /\ tpc = "gl_returned" =>
              LET size == IF gl.part = "train" THEN cifar.train ELSE cifar.test
                  nb == NumBatches(gl.ret)
              IN  /\ gl.part \in {"train", "test"}
                  /\ gl.created = <<"dataset", "loader">>
                  /\ gl.ret.drop_last = (gl.part = "train")
                  /\ gl.ret.dataset.size = size
                  /\ IF gl.part = "train"
                     THEN /\ nb = size \div 32
                          /\ \A b \in 1..nb : BatchLen(gl.ret, b) = 32
                     ELSE /\ nb = (size + 31) \div 32
                          /\ BatchLen(gl.ret, nb) = size - 32 * (nb - 1)
\* The "test" loader was returned and its last batch is a truncated one.
C30_Witness ==
    /\ entry = "get_cifar10_loader" /\ tpc = "gl_returned"
    /\ gl.part = "test" /\ ~gl.ret.drop_last
    /\ BatchLen(gl.ret, NumBatches(gl.ret)) = 16

====
